---- MODULE Spec2Model ----
(***************************************************************************)
(* Model of the BigInt class of Arbitrary-precision-integer-calculator.py: *)
(* the digit-vector representation, its three constructors, and add,       *)
(* subtract, multiply, floor-divide, modulo, factorial and to_int.         *)
(*                                                                         *)
(* A BigInt object is the record [err |-> "none", base, digits]; digits is *)
(* the Python list, most significant digit first.  A call that raises is   *)
(* the record [err |-> <exception class>, base |-> 0, digits |-> <<>>].    *)
(***************************************************************************)
EXTENDS Integers, Sequences

\* ------------------------------------------------------------------ bounds
\* Operands drawn by Init have magnitude at most MaxVal.
MaxVal == 12
\* Numeral strings handed to the string constructor have at most MaxStrLen characters.
MaxStrLen == 3
\* Digit lists handed to the list constructor have at most MaxListLen entries.
MaxListLen == 2
\* Nested __add__/__sub__ calls allowed before the interpreter raises RecursionError.
MaxDepth == 12
\* factorial is only started on operands of value at most MaxFact.
MaxFact == 6

\* The radixes explored; 10 is the constructor's default.
Bases == {2, 3, 10}
\* Characters of the numeral strings explored.
Alphabet == {"-", " ", "0", "2", "3"}
\* Entries of the digit lists explored.
ListDigits == {-1, 0, 2, 3, 10}
\* The expressions a session may evaluate, each as the sequence of operations applied
\* to the accumulator; a session follows a prefix of one of them.  The right operand
\* of a binary operation is b, and of "add_rem" it is a % b.
Constructors == {"int", "str", "list"}
Programs ==
  {<<"add", "sub">>, <<"floordiv", "mul", "add_rem">>, <<"sub">>, <<"mul">>,
   <<"neg", "factorial">>, <<"abs", "factorial">>, <<"factorial">>}
  \cup {<<k, op>> : k \in Constructors, op \in {"factorial", "neg", "abs", "add"}}

\* ------------------------------------------------------------ representation
BI(base, digits) == [err |-> "none", base |-> base, digits |-> digits]
Raise(e) == [err |-> e, base |-> 0, digits |-> <<>>]
Unset == Raise("unset")
IsObj(x) == x.err = "none"

\* A native integer result, or the exception raised instead.
Native(n) == [err |-> "none", val |-> n]
NativeRaise(e) == [err |-> e, val |-> 0]
NativeUnset == NativeRaise("unset")

Abs(n) == IF n < 0 THEN -n ELSE n
Max(m, n) == IF m >= n THEN m ELSE n
Reverse(s) == [i \in 1..Len(s) |-> s[Len(s) + 1 - i]]
AbsDigits(s) == [i \in 1..Len(s) |-> Abs(s[i])]
NegDigits(s) == [i \in 1..Len(s) |-> -s[i]]
SignDigits(sign, s) == [i \in 1..Len(s) |-> sign * s[i]]

\* The default base of BigInt.__init__ and so of every BigInt() an operation builds.
DefaultBase == 10

\* _normalize: remove leading zeros, keeping at least one digit.
RECURSIVE normalize(_)
normalize(digits) ==
  IF Len(digits) > 1 /\ digits[1] = 0 THEN normalize(Tail(digits)) ELSE digits

\* _validate_digits: raise ValueError on a digit below 0 or not below the base.
validate_digits(base, digits) ==
  IF \E i \in 1..Len(digits) : digits[i] < 0 \/ digits[i] >= base
  THEN Raise("ValueError")
  ELSE BI(base, digits)

\* __init__, int branch, lines 9-11: the digits least significant first.
RECURSIVE int_digits_lsf(_, _)
int_digits_lsf(value, base) ==
  IF value > 0
  THEN <<value % base>> \o int_digits_lsf(value \div base, base)
  ELSE <<>>

\* __init__ for an int value.
BigIntFromInt(value, base) ==
  validate_digits(base,
    IF value = 0 THEN <<0>> ELSE Reverse(int_digits_lsf(value, base)))

\* BigInt(): value 0, base 10.
BigIntDefault == BigIntFromInt(0, DefaultBase)

\* The object an operation builds with "result = BigInt(); result.digits = d".
Fresh(digits) == [BigIntDefault EXCEPT !.digits = digits]

\* int(char, base) for one character: its digit value, or -1 for a ValueError.
DigitChars == <<"0", "1", "2", "3", "4", "5", "6", "7", "8", "9">>
char_value(c, base) ==
  IF \E k \in 1..Len(DigitChars) : DigitChars[k] = c /\ k - 1 < base
  THEN (CHOOSE k \in 1..Len(DigitChars) : DigitChars[k] = c) - 1
  ELSE -1

\* str.strip(): drop leading and trailing blanks.
RECURSIVE lstrip(_)
lstrip(s) == IF Len(s) > 0 /\ s[1] = " " THEN lstrip(Tail(s)) ELSE s
strip(s) == Reverse(lstrip(Reverse(lstrip(s))))

\* from_str followed by __init__'s _validate_digits; s is the sequence of characters.
from_str(s, base) ==
  LET v0 == strip(s)
      neg == Len(v0) > 0 /\ v0[1] = "-"
      v1 == IF neg THEN Tail(v0) ELSE v0
      parsed == [i \in 1..Len(v1) |-> char_value(v1[i], base)]
      digits == IF v1 = <<"0">> THEN <<0>> ELSE parsed
  IN  IF v1 # <<"0">> /\ \E i \in 1..Len(parsed) : parsed[i] = -1
      THEN Raise("ValueError")
      ELSE validate_digits(base, IF neg THEN NegDigits(digits) ELSE digits)

\* __init__ for a list value: the digits verbatim.
BigIntFromList(l, base) == validate_digits(base, l)

\* to_int
RECURSIVE to_int_fold(_, _, _)
to_int_fold(digits, base, result) ==
  IF digits = <<>> THEN result
  ELSE to_int_fold(Tail(digits), base, result * base + Abs(digits[1]))

to_int(x) ==
  IF x.digits = <<>> THEN NativeRaise("IndexError")
  ELSE Native(to_int_fold(x.digits, x.base, 0) * (IF x.digits[1] >= 0 THEN 1 ELSE -1))

\* __abs__ and __neg__: a BigInt() whose digits and base are then overwritten.
abs(x) == [Fresh(AbsDigits(x.digits)) EXCEPT !.base = x.base]
neg(x) == [Fresh(NegDigits(x.digits)) EXCEPT !.base = x.base]

\* ---------------------------------------------------------------- arithmetic
\* "abs(self) < abs(other)": BigInt defines no __lt__, so the comparison of two
\* BigInt objects raises TypeError whatever their digits are.
bigint_less(x, y) == [err |-> "TypeError", val |-> FALSE]

\* Element i (counted from 0) of a reversed digit list, 0 beyond its end.
DigitAt(rev, i) == IF i < Len(rev) THEN rev[i + 1] ELSE 0

\* __add__, lines 95-103: the digit loop, least significant digit first.
RECURSIVE add_loop(_, _, _, _, _, _)
add_loop(a_digits, b_digits, base, i, carry, result_digits) ==
  IF i < Max(Len(a_digits), Len(b_digits))
  THEN LET total == DigitAt(a_digits, i) + DigitAt(b_digits, i) + carry
       IN  add_loop(a_digits, b_digits, base, i + 1, total \div base,
                    Append(result_digits, total % base))
  ELSE IF carry # 0 THEN Append(result_digits, carry) ELSE result_digits

\* __add__, lines 88-109: both operands of one sign.
add_same_sign(self, other) ==
  LET sign == IF self.digits[1] >= 0 THEN 1 ELSE -1
      a_digits == AbsDigits(Reverse(self.digits))
      b_digits == AbsDigits(Reverse(other.digits))
      result_digits == Reverse(add_loop(a_digits, b_digits, self.base, 0, 0, <<>>))
  IN  Fresh(normalize(SignDigits(sign, result_digits)))

\* __sub__, lines 132-141: the borrow loop, least significant digit first.
RECURSIVE sub_loop(_, _, _, _, _, _)
sub_loop(a_digits, b_digits, base, i, borrow, result_digits) ==
  IF i < Max(Len(a_digits), Len(b_digits))
  THEN LET total == DigitAt(a_digits, i) - DigitAt(b_digits, i) - borrow
       IN  sub_loop(a_digits, b_digits, base, i + 1,
                    IF total < 0 THEN 1 ELSE 0,
                    Append(result_digits, IF total < 0 THEN total + base ELSE total))
  ELSE result_digits

\* __sub__, lines 126-147: digit-wise subtraction of the smaller from the larger.
sub_digits(self, other) ==
  Fresh(normalize(Reverse(
    sub_loop(Reverse(self.digits), Reverse(other.digits), self.base, 0, 0, <<>>))))

\* __add__ and __sub__ call each other; depth counts the nested calls, and a call
\* beyond MaxDepth raises RecursionError.
RECURSIVE add_at(_, _, _)
RECURSIVE sub_at(_, _, _)
add_at(self, other, depth) ==
  IF depth > MaxDepth THEN Raise("RecursionError")
  ELSE IF self.digits = <<>> \/ other.digits = <<>> THEN Raise("IndexError")
  ELSE IF self.digits[1] < 0 /\ other.digits[1] >= 0
       THEN sub_at(other, abs(self), depth + 1)
  ELSE IF self.digits[1] >= 0 /\ other.digits[1] < 0
       THEN sub_at(self, abs(other), depth + 1)
  ELSE add_same_sign(self, other)

sub_at(self, other, depth) ==
  IF depth > MaxDepth THEN Raise("RecursionError")
  ELSE IF self.digits = <<>> THEN Raise("IndexError")
  ELSE IF self.digits[1] < 0 /\ other.digits = <<>> THEN Raise("IndexError")
  ELSE IF self.digits[1] < 0 /\ other.digits[1] < 0
       THEN sub_at(abs(other), abs(self), depth + 1)
  ELSE IF self.digits[1] < 0
       THEN sub_at(neg(abs(self)), other, depth + 1)
  ELSE IF other.digits = <<>> THEN Raise("IndexError")
  ELSE IF other.digits[1] < 0
       THEN add_at(self, abs(other), depth + 1)
  ELSE LET lt == bigint_less(abs(self), abs(other))
       IN  IF lt.err # "none" THEN Raise(lt.err)
           ELSE IF lt.val
                THEN LET result == sub_at(other, self, depth + 1)
                     IN  IF IsObj(result)
                         THEN [result EXCEPT !.digits = NegDigits(result.digits)]
                         ELSE result
           ELSE sub_digits(self, other)

\* a + b and a - b as a caller writes them.
add(self, other) == add_at(self, other, 1)
sub(self, other) == sub_at(self, other, 1)

\* __mul__, lines 163-166: the inner loop over j (counted from 0, downwards) of
\* one pass i; yields the updated result_digits and the carry left over.
RECURSIVE mul_row(_, _, _, _, _, _, _)
mul_row(a_digits, b_digits, base, i, j, carry, result_digits) ==
  IF j < 0 THEN [digits |-> result_digits, carry |-> carry]
  ELSE LET m == a_digits[i + 1] * b_digits[j + 1] + result_digits[i + j + 2] + carry
       IN  mul_row(a_digits, b_digits, base, i, j - 1, m \div base,
                   [result_digits EXCEPT ![i + j + 2] = m % base])

\* __mul__, lines 161-167: the outer loop over i (counted from 0, downwards); the
\* inner loop leaves j = 0, so line 167 stores the carry at index i.
RECURSIVE mul_rows(_, _, _, _, _)
mul_rows(a_digits, b_digits, base, i, result_digits) ==
  IF i < 0 THEN result_digits
  ELSE LET row == mul_row(a_digits, b_digits, base, i, Len(b_digits) - 1, 0, result_digits)
       IN  mul_rows(a_digits, b_digits, base, i - 1,
                    [row.digits EXCEPT ![i + 1] = row.carry])

\* __mul__
mul(self, other) ==
  IF self.digits = <<>> \/ other.digits = <<>> THEN Raise("IndexError")
  ELSE LET sign == (IF self.digits[1] < 0 THEN -1 ELSE 1)
                   * (IF other.digits[1] < 0 THEN -1 ELSE 1)
           zeros == [k \in 1..(Len(self.digits) + Len(other.digits)) |-> 0]
           result_digits == mul_rows(AbsDigits(self.digits), AbsDigits(other.digits),
                                     self.base, Len(self.digits) - 1, zeros)
       IN  Fresh(normalize(SignDigits(sign, result_digits)))

\* _list_compare: by length first, then digit by digit from the most significant.
RECURSIVE list_compare_zip(_, _)
list_compare_zip(a, b) ==
  IF a = <<>> THEN 0
  ELSE IF a[1] > b[1] THEN 1
  ELSE IF a[1] < b[1] THEN -1
  ELSE list_compare_zip(Tail(a), Tail(b))

list_compare(a, b) ==
  IF Len(a) > Len(b) THEN 1
  ELSE IF Len(a) < Len(b) THEN -1
  ELSE list_compare_zip(a, b)

\* The radix _list_subtract adds back on a borrow, whatever the operands' base.
ListSubtractBase == 10

\* _list_subtract, lines 270-281: the borrow loop over the reversed lists.
RECURSIVE list_subtract_loop(_, _, _, _, _)
list_subtract_loop(a, b, i, borrow, result) ==
  IF i < Max(Len(a), Len(b))
  THEN LET total == DigitAt(a, i) - DigitAt(b, i) - borrow
       IN  list_subtract_loop(a, b, i + 1,
                              IF total < 0 THEN 1 ELSE 0,
                              Append(result,
                                     IF total < 0 THEN total + ListSubtractBase ELSE total))
  ELSE result

\* _list_subtract, lines 283-284: pop the zeros at the end of the reversed result.
RECURSIVE pop_zeros(_)
pop_zeros(result) ==
  IF result # <<>> /\ result[Len(result)] = 0
  THEN pop_zeros(SubSeq(result, 1, Len(result) - 1))
  ELSE result

\* _list_subtract
list_subtract(a, b) ==
  LET result == pop_zeros(list_subtract_loop(Reverse(a), Reverse(b), 0, 0, <<>>))
  IN  IF result = <<>> THEN <<0>> ELSE Reverse(result)

\* Lines 194-195 and 222-223: strip the leading zeros of the running remainder.
strip_remainder(remainder) == normalize(remainder)

\* Lines 196-199 and 224-225: subtract the divisor while the remainder is not
\* smaller; yields the remainder left and the number of subtractions.
RECURSIVE subtract_while(_, _, _)
subtract_while(remainder, divisor, count) ==
  IF list_compare(remainder, divisor) >= 0
  THEN subtract_while(list_subtract(remainder, divisor), divisor, count + 1)
  ELSE [remainder |-> remainder, count |-> count]

\* The long division of __floordiv__ (lines 191-200) and __mod__ (lines 219-225):
\* one dividend digit at a time; yields the quotient digits and the remainder.
RECURSIVE long_division(_, _, _, _)
long_division(dividend, divisor, remainder, quotient) ==
  IF dividend = <<>> THEN [quotient |-> quotient, remainder |-> remainder]
  ELSE LET step == subtract_while(strip_remainder(Append(remainder, dividend[1])),
                                  divisor, 0)
       IN  long_division(Tail(dividend), divisor, step.remainder,
                         Append(quotient, step.count))

\* __floordiv__
floordiv(self, other) ==
  IF to_int(other).err # "none" THEN Raise(to_int(other).err)
  ELSE IF to_int(other).val = 0 THEN Raise("ZeroDivisionError")
  ELSE IF self.digits = <<>> THEN Raise("IndexError")
  ELSE LET sign == (IF self.digits[1] < 0 THEN -1 ELSE 1)
                   * (IF other.digits[1] < 0 THEN -1 ELSE 1)
           d == long_division(AbsDigits(self.digits), AbsDigits(other.digits), <<>>, <<>>)
       IN  Fresh(normalize(SignDigits(sign, d.quotient)))

\* __mod__
mod(self, other) ==
  IF to_int(other).err # "none" THEN Raise(to_int(other).err)
  ELSE IF to_int(other).val = 0 THEN Raise("ZeroDivisionError")
  ELSE IF self.digits = <<>> THEN Raise("IndexError")
  ELSE LET sign == IF self.digits[1] >= 0 THEN 1 ELSE -1
           d == long_division(AbsDigits(self.digits), AbsDigits(other.digits), <<>>, <<>>)
       IN  Fresh(normalize(SignDigits(sign, d.remainder)))

\* ------------------------------------------------------------------- session
\* a, b     the two operands of the session
\* arg      the raw value handed to a constructor, when the session starts with one
\* acc      the value the session has computed so far, or the exception raised
\* hist     the operations applied to reach acc, oldest first
\* rem      a % b once computed
\* native   to_int(acc) once computed
\* pc       "ready", or "loop" inside factorial's while loop
\* result, current   factorial's local variables
VARIABLES a, b, arg, acc, hist, rem, native, pc, result, current
vars == <<a, b, arg, acc, hist, rem, native, pc, result, current>>

\* A BigInt of value v in the given base: built from the magnitude, negated for v < 0.
Operand(v, base) ==
  IF v >= 0 THEN BigIntFromInt(v, base) ELSE neg(BigIntFromInt(-v, base))

IsPrefix(s, p) == Len(s) <= Len(p) /\ SubSeq(p, 1, Len(s)) = s
\* The session may go on with operation op.
MayApply(op) == \E p \in Programs : IsPrefix(Append(hist, op), p)

SeqsUpTo(S, n) == UNION {[1..k -> S] : k \in 0..n}
NoArg == [kind |-> "none", int |-> 0, seq |-> <<>>, base |-> DefaultBase]
IntArgs == {[kind |-> "int", int |-> v, seq |-> <<>>, base |-> B] :
              v \in -MaxVal..MaxVal, B \in Bases}
StrArgs == {[kind |-> "str", int |-> 0, seq |-> s, base |-> B] :
              s \in SeqsUpTo(Alphabet, MaxStrLen), B \in Bases}
ListArgs == {[kind |-> "list", int |-> 0, seq |-> l, base |-> B] :
              l \in SeqsUpTo(ListDigits, MaxListLen), B \in Bases}

\* Either two operands of one base are at hand, or nothing is constructed yet and
\* a constructor argument is; b is then BigInt().
Init ==
  /\ \/ /\ arg = NoArg
        /\ \E B \in Bases : \E va, vb \in -MaxVal..MaxVal :
             a = Operand(va, B) /\ b = Operand(vb, B)
     \/ /\ arg \in IntArgs \cup StrArgs \cup ListArgs
        /\ a = Unset
        /\ b = BigIntDefault
  /\ acc = a
  /\ hist = <<>>
  /\ rem = Unset
  /\ native = NativeUnset
  /\ pc = "ready"
  /\ result = Unset
  /\ current = Unset

\* a = BigInt(value, base): the constructed object, or the exception.
Construct(kind, outcome) ==
  /\ pc = "ready" /\ hist = <<>> /\ arg.kind = kind
  /\ acc' = outcome
  /\ a' = outcome
  /\ hist' = <<kind>>
  /\ UNCHANGED <<b, arg, rem, native, pc, result, current>>

FromInt == Construct("int", BigIntFromInt(arg.int, arg.base))
FromStr == Construct("str", from_str(arg.seq, arg.base))
FromList == Construct("list", BigIntFromList(arg.seq, arg.base))

\* acc = <operation on acc>: one more operation of the session.
Apply(op, outcome) ==
  /\ pc = "ready" /\ IsObj(acc) /\ MayApply(op)
  /\ acc' = outcome
  /\ hist' = Append(hist, op)
  /\ native' = NativeUnset
  /\ UNCHANGED <<a, b, arg, rem, pc, result, current>>

Add == Apply("add", add(acc, b))
Sub == Apply("sub", sub(acc, b))
Mul == Apply("mul", mul(acc, b))
FloorDiv == Apply("floordiv", floordiv(acc, b))
Neg == Apply("neg", neg(acc))
AbsOp == Apply("abs", abs(acc))
AddRem == IsObj(rem) /\ Apply("add_rem", add(acc, rem))

\* rem = a % b
Mod ==
  /\ pc = "ready" /\ IsObj(a) /\ rem = Unset
  /\ rem' = mod(a, b)
  /\ UNCHANGED <<a, b, arg, acc, hist, native, pc, result, current>>

\* native = acc.to_int()
ToInt ==
  /\ pc = "ready" /\ IsObj(acc) /\ native = NativeUnset
  /\ native' = to_int(acc)
  /\ UNCHANGED <<a, b, arg, acc, hist, rem, pc, result, current>>

\* factorial, lines 234-241: the domain check, the short cut for 0 and 1, and the
\* initialisation of the loop.
FactorialCall ==
  /\ pc = "ready" /\ IsObj(acc) /\ MayApply("factorial")
  /\ to_int(acc).err = "none" => to_int(acc).val <= MaxFact
  /\ hist' = Append(hist, "factorial")
  /\ native' = NativeUnset
  /\ IF to_int(acc).err # "none"
     THEN acc' = Raise(to_int(acc).err) /\ UNCHANGED <<pc, result, current>>
     ELSE IF to_int(acc).val < 0
     THEN acc' = Raise("ValueError") /\ UNCHANGED <<pc, result, current>>
     ELSE IF to_int(acc).val <= 1
     THEN acc' = BigIntFromInt(1, DefaultBase) /\ UNCHANGED <<pc, result, current>>
     ELSE /\ pc' = "loop"
          /\ result' = BigIntFromInt(1, DefaultBase)
          /\ current' = BigIntFromInt(1, DefaultBase)
          /\ UNCHANGED acc
  /\ UNCHANGED <<a, b, arg, rem>>

\* The loop condition with "<" for "<=": the last factor is left out.
loop_condition_strict(cur, self) == to_int(cur).val < to_int(self).val
\* factorial, line 243: the condition of the while loop ("self" is acc).
loop_condition(cur, self) == to_int(cur).val <= to_int(self).val

\* factorial, lines 243-245: one iteration of the while loop.
FactorialLoop ==
  /\ pc = "loop"
  /\ loop_condition(current, acc)
  /\ result' = mul(result, current)
  /\ current' = add(current, BigIntFromInt(1, DefaultBase))
  /\ UNCHANGED <<a, b, arg, acc, hist, rem, native, pc>>

\* factorial, lines 243 and 247: the loop condition fails and result is returned.
FactorialReturn ==
  /\ pc = "loop"
  /\ ~loop_condition(current, acc)
  /\ acc' = result
  /\ pc' = "ready"
  /\ result' = Unset
  /\ current' = Unset
  /\ UNCHANGED <<a, b, arg, hist, rem, native>>

Next ==
  \/ FromInt \/ FromStr \/ FromList
  \/ Add \/ Sub \/ Mul \/ FloorDiv \/ Mod \/ AddRem
  \/ Neg \/ AbsOp \/ ToInt
  \/ FactorialCall \/ FactorialLoop \/ FactorialReturn

Spec == Init /\ [][Next]_vars

\* ------------------------------------------------------------- reference
\* The integer a digit list denotes in a base, by position, and its sign.
RECURSIVE Magnitude(_, _)
Magnitude(digits, base) ==
  IF digits = <<>> THEN 0
  ELSE Magnitude(SubSeq(digits, 1, Len(digits) - 1), base) * base
       + Abs(digits[Len(digits)])

Value(x) ==
  IF \E i \in 1..Len(x.digits) : x.digits[i] < 0
  THEN -Magnitude(x.digits, x.base) ELSE Magnitude(x.digits, x.base)

\* The normalized base-B digits of n >= 0, most significant first.
RECURSIVE RefDigits(_, _)
RefDigits(n, base) ==
  IF n < base THEN <<n>> ELSE Append(RefDigits(n \div base, base), n % base)

\* The digit list the data model prescribes for the integer v.
RefSigned(v, base) ==
  IF v >= 0 THEN RefDigits(v, base) ELSE NegDigits(RefDigits(-v, base))

RECURSIVE Fact(_)
Fact(n) == IF n <= 1 THEN 1 ELSE n * Fact(n - 1)

\* The data-model invariants: at least one digit, no leading zero except in [0],
\* one sign for all digits, every magnitude below the recorded base.
WellFormed(x) ==
  /\ IsObj(x)
  /\ Len(x.digits) >= 1
  /\ Len(x.digits) > 1 => x.digits[1] # 0
  /\ \/ \A i \in 1..Len(x.digits) : x.digits[i] >= 0
     \/ \A i \in 1..Len(x.digits) : x.digits[i] <= 0
  /\ \A i \in 1..Len(x.digits) : Abs(x.digits[i]) < x.base

IsNegative(x) == x.digits # <<>> /\ x.digits[1] < 0
\* The session started from two operands (not from a constructor argument).
FromOperands == arg = NoArg
\* The characters after a leading "-" are digits of the base, at least one.
IsNegNumeral(s, base) ==
  /\ Len(s) >= 2 /\ s[1] = "-"
  /\ \A i \in 2..Len(s) : char_value(s[i], base) >= 0
\* A numeral with no superfluous leading zero and no "-0".
IsNormalNumeral(s, base) ==
  LET body == IF Len(s) > 0 /\ s[1] = "-" THEN Tail(s) ELSE s
  IN  /\ Len(body) >= 1
      /\ \A i \in 1..Len(body) : char_value(body[i], base) >= 0
      /\ Len(body) > 1 => body[1] # "0"
      /\ body = <<"0">> => s = body
\* The operand factorial was called on, from the operations before the call.
FactorialOperand ==
  IF hist[1] = "neg" THEN neg(a) ELSE IF hist[1] = "abs" THEN abs(a) ELSE a
FactorialCalled == hist # <<>> /\ hist[Len(hist)] = "factorial"

\* -------------------------------------------------------------------- claims
\* C1: construction rejects digits only for a magnitude not below the base, never
\* for being negative: a numeral string "-" followed by digits of the base is
\* accepted and yields the negated digits.
C1_NegativeNumeralAccepted ==
  (hist = <<"str">> /\ IsNegNumeral(arg.seq, arg.base))
    => /\ IsObj(acc)
       /\ acc.digits = [i \in 1..(Len(arg.seq) - 1) |-> -char_value(arg.seq[i + 1], arg.base)]

\* C2: for well-formed a and b of one base, a + b succeeds and (a + b) - b succeeds
\* and has the digits of a.
C2_InverseLaw ==
  (FromOperands /\ WellFormed(a) /\ WellFormed(b) /\ a.base = b.base)
    => /\ hist = <<"add">> => IsObj(acc)
       /\ hist = <<"add", "sub">> => (IsObj(acc) /\ acc.digits = a.digits)

\* C3: for well-formed a and b of one base, b not zero, a // b, (a // b) * b, a % b
\* and (a // b) * b + a % b all succeed, and the last has the digits of a.
C3_DivisionRelation ==
  (FromOperands /\ WellFormed(a) /\ WellFormed(b) /\ a.base = b.base /\ Value(b) # 0)
    => /\ rem # Unset => IsObj(rem)
       /\ hist \in {<<"floordiv">>, <<"floordiv", "mul">>} => IsObj(acc)
       /\ hist = <<"floordiv", "mul", "add_rem">> => (IsObj(acc) /\ acc.digits = a.digits)

\* C4: a BigInt returned by the integer constructor, by the string constructor (for
\* a normalized numeral), or by an operation on well-formed operands is well-formed.
C4_ResultsWellFormed ==
  /\ (hist = <<"int">> /\ IsObj(acc)) => WellFormed(acc)
  /\ (hist = <<"str">> /\ IsNormalNumeral(arg.seq, arg.base) /\ IsObj(acc))
       => WellFormed(acc)
  /\ (FromOperands /\ WellFormed(a) /\ WellFormed(b))
       => /\ (Len(hist) = 1 /\ pc = "ready" /\ IsObj(acc)) => WellFormed(acc)
          /\ IsObj(rem) => WellFormed(rem)

\* C5: the integer constructor on a negative v yields the negated base-B digits of
\* |v|, a non-empty list with a negative leading digit, and to_int gives v back.
C5_NegativeIntConstructed ==
  (hist = <<"int">> /\ arg.int < 0)
    => /\ IsObj(acc)
       /\ acc.digits = RefSigned(arg.int, arg.base)
       /\ IsNegative(acc)
       /\ native # NativeUnset => native = Native(arg.int)

\* C6: factorial of a negative operand, the one constructed from a negative integer
\* included, raises the ValueError of its domain check, before the loop is entered.
C6_NegativeFactorialRejected ==
  /\ (FromOperands /\ FactorialCalled /\ Value(FactorialOperand) < 0)
       => (pc = "ready" /\ acc.err = "ValueError")
  /\ (hist = <<"int", "factorial">> /\ arg.int < 0)
       => (pc = "ready" /\ acc.err = "ValueError")

\* An object with at least one digit and no negative digit.
NonNegative(x) ==
  IsObj(x) /\ x.digits # <<>> /\ \A i \in 1..Len(x.digits) : x.digits[i] >= 0
\* Inside the loop of factorial(n) the counter is in 1..n+1 and result is
\* (counter - 1)!; once factorial has returned, acc is a well-formed BigInt of value n!.
C7_LoopInvariant ==
  (FactorialCalled /\ NonNegative(FactorialOperand))
    => LET n == Value(FactorialOperand)
       IN  /\ pc = "loop"
                => /\ IsObj(current) /\ IsObj(result)
                   /\ Value(current) \in 1..(n + 1)
                   /\ Value(result) = Fact(Value(current) - 1)
                   /\ Value(current) = n + 1 => ENABLED FactorialReturn
           /\ pc = "ready" => (IsObj(acc) /\ WellFormed(acc) /\ Value(acc) = Fact(n))
\* C7: factorial of a non-negative operand n counts from 1 upwards by one, leaves the
\* loop once the counter exceeds n, and returns a BigInt of value n!.
C7_FactorialComputes ==
  /\ []C7_LoopInvariant
  /\ [][(pc = "loop" /\ pc' = "loop") => Value(current') = Value(current) + 1]_vars
\* factorial(5) has returned 120.
C7_Witness ==
  /\ hist = <<"factorial">> /\ pc = "ready"
  /\ Value(a) = 5 /\ acc.digits = <<1, 2, 0>>

\* C8: the product of well-formed a and b of base B is in base B, has the normalized
\* base-B digits of |a|*|b| with the sign of the product, and to_int of it is the
\* product of the operands' to_int.
C8_ProductInBase ==
  (FromOperands /\ hist = <<"mul">> /\ WellFormed(a) /\ WellFormed(b) /\ a.base = b.base)
    => /\ IsObj(acc)
       /\ acc.base = a.base
       /\ acc.digits = RefSigned(Value(a) * Value(b), a.base)
       /\ native # NativeUnset => native = Native(to_int(a).val * to_int(b).val)

\* C9: for a negative self and a non-negative other, self - other returns the
\* negation of |self| + other after finitely many nested calls.
C9_NegativeMinusNonNegative ==
  (FromOperands /\ hist = <<"sub">> /\ WellFormed(a) /\ WellFormed(b)
     /\ IsNegative(a) /\ ~IsNegative(b))
    => /\ IsObj(acc)
       /\ acc.digits = neg(add(abs(a), b)).digits

\* C10: for non-negative well-formed a and b of base B, b not zero, the digits of
\* a // b are the base-B digits of the integer quotient, each below B, and the
\* digits of a % b are the base-B digits of the remainder.
C10_LongDivisionInBase ==
  (FromOperands /\ WellFormed(a) /\ WellFormed(b) /\ a.base = b.base
     /\ ~IsNegative(a) /\ ~IsNegative(b) /\ Value(b) # 0)
    => /\ hist = <<"floordiv">>
            => /\ IsObj(acc)
               /\ \A i \in 1..Len(acc.digits) : acc.digits[i] \in 0..(a.base - 1)
               /\ acc.digits = RefDigits(Value(a) \div Value(b), a.base)
       /\ rem # Unset
            => /\ IsObj(rem)
               /\ rem.digits = RefDigits(Value(a) % Value(b), a.base)

====
